---- MODULE Spec2Model ----
(***************************************************************************)
(* Statement routing of the consensus table router                         *)
(* (polkadot/network/src/router.rs): the DeferredStatements buffer and     *)
(* Router::import_statement, called concurrently from several contexts.    *)
(***************************************************************************)
EXTENDS Integers, Sequences, FiniteSets, TLC

\* ---------------------------------------------------------------- bounds
\* Number of import_statement calls made on the router in one behaviour.
MaxCalls == 3
\* Number of push / get_deferred calls made on a bare buffer in one behaviour.
MaxOps == 3
\* Number of producers the import hands to the dispatch loop run on its own.
MaxProducers == 2

\* ---------------------------------------------------------------- data
Hashes == {1, 2}
Senders == {1, 2}
Signatures == {1, 2}
Procs == {1, 2}
\* the kinds, senders and signatures of the statements arriving at the router
\* (the router handles Valid, Invalid and Available in one match arm)
NetKinds == {"Candidate", "Valid", "Available"}
NetSenders == {1}
NetSignatures == {1}

\* GenericStatement: Candidate(receipt) | Valid(hash) | Invalid(hash) | Available(hash).
\* A Candidate's receipt is represented by its hash (candidate.hash()).
Kinds == {"Candidate", "Valid", "Invalid", "Available"}

SignedStatement == [kind : Kinds, hash : Hashes, sender : Senders, signature : Signatures]

\* the statements the network hands to import_statement
Incoming ==
    {s \in SignedStatement :
        s.kind \in NetKinds /\ s.sender \in NetSenders /\ s.signature \in NetSignatures}

\* Router.parent_hash: Option<P::CheckedBlockId>
ParentHashes == {"None", "Some"}

\* a producer returned by the table's import: blank, or carrying work
ProducerKinds == {"blank", "work"}

\* enum StatementTrace { Valid(SessionKey, Hash), Invalid(..), Available(..) }
StatementTrace(kind, sender, hash) == [kind |-> kind, sender |-> sender, hash |-> hash]

\* DeferredStatements::new
new == [deferred |-> << >>, known_traces |-> {}]

Range(seq) == {seq[i] : i \in 1..Len(seq)}

\* the match of push / get_deferred computing the trace of a non-Candidate statement
TraceOf(statement) == StatementTrace(statement.kind, statement.sender, statement.hash)

\* self.deferred.entry(hash).or_insert_with(Vec::new).push(statement)
EntryPush(deferred, hash, statement) ==
    [h \in (DOMAIN deferred) \cup {hash} |->
        IF h = hash
        THEN (IF hash \in DOMAIN deferred THEN deferred[hash] ELSE << >>) \o <<statement>>
        ELSE deferred[h]]

\* mutants of push
push_NoDedup(self, statement) ==
    IF statement.kind = "Candidate" THEN self
    ELSE [deferred |-> EntryPush(self.deferred, statement.hash, statement),
          known_traces |-> self.known_traces \cup {TraceOf(statement)}]

push_StoresCandidate(self, statement) ==
    IF statement.kind # "Candidate" /\ TraceOf(statement) \in self.known_traces THEN self
    ELSE [deferred |-> EntryPush(self.deferred, statement.hash, statement),
          known_traces |-> IF statement.kind = "Candidate" THEN self.known_traces
                           ELSE self.known_traces \cup {TraceOf(statement)}]

push_Overwrites(self, statement) ==
    IF statement.kind = "Candidate" THEN self
    ELSE IF TraceOf(statement) \in self.known_traces THEN self
    ELSE [deferred |-> [h \in (DOMAIN self.deferred) \cup {statement.hash} |->
                          IF h = statement.hash THEN <<statement>> ELSE self.deferred[h]],
          known_traces |-> self.known_traces \cup {TraceOf(statement)}]

\* DeferredStatements::push
push(self, statement) ==
    IF statement.kind = "Candidate" THEN self
    ELSE LET trace == TraceOf(statement) IN
         IF trace \in self.known_traces
         THEN self
         ELSE [deferred |-> EntryPush(self.deferred, statement.hash, statement),
               known_traces |-> self.known_traces \cup {trace}]

\* the for loop of get_deferred: the traces of the removed statements, in order,
\* skipping Candidate statements
RECURSIVE Traces(_)
Traces(deferred) ==
    IF deferred = << >> THEN << >>
    ELSE IF Head(deferred).kind = "Candidate" THEN Traces(Tail(deferred))
    ELSE <<TraceOf(Head(deferred))>> \o Traces(Tail(deferred))

\* mutants of get_deferred
get_deferred_KeepsTraces(self, hash) ==
    IF hash \notin DOMAIN self.deferred
    THEN [self |-> self, signed |-> << >>, traces |-> << >>]
    ELSE [self |-> [deferred |-> [h \in (DOMAIN self.deferred) \ {hash} |-> self.deferred[h]],
                    known_traces |-> self.known_traces],
          signed |-> self.deferred[hash],
          traces |-> Traces(self.deferred[hash])]

get_deferred_KeepsList(self, hash) ==
    IF hash \notin DOMAIN self.deferred
    THEN [self |-> self, signed |-> << >>, traces |-> << >>]
    ELSE [self |-> [deferred |-> self.deferred,
                    known_traces |-> self.known_traces \ Range(Traces(self.deferred[hash]))],
          signed |-> self.deferred[hash],
          traces |-> Traces(self.deferred[hash])]

get_deferred_ClearsAll(self, hash) ==
    [self |-> new,
     signed |-> IF hash \in DOMAIN self.deferred THEN self.deferred[hash] ELSE << >>,
     traces |-> IF hash \in DOMAIN self.deferred THEN Traces(self.deferred[hash]) ELSE << >>]

\* DeferredStatements::get_deferred: the buffer afterwards and the returned pair
get_deferred(self, hash) ==
    IF hash \notin DOMAIN self.deferred
    THEN [self |-> self, signed |-> << >>, traces |-> << >>]
    ELSE LET deferred == self.deferred[hash]
             traces == Traces(deferred)
         IN [self |-> [deferred |-> [h \in (DOMAIN self.deferred) \ {hash} |-> self.deferred[h]],
                       known_traces |-> self.known_traces \ Range(traces)],
             signed |-> deferred,
             traces |-> traces]

\* ---------------------------------------------------------------- consensus table
\* SharedTable as the router sees it: the set of candidate hashes it knows.
\* table.with_candidate(hash, |c| c.is_none())
candidate_is_none(table, hash) == hash \notin table

\* table.import_remote_statements(router, batch): a Candidate of the batch becomes known
import_remote_statements(table, batch) ==
    table \cup {batch[i].hash : i \in {j \in 1..Len(batch) : batch[j].kind = "Candidate"}}

\* what the import may return for a batch: one producer per statement, blank or not
ProducersFor(batch) == [1..Len(batch) -> ProducerKinds]

\* ---------------------------------------------------------------- TableRouter for Router
\* fetch_block_data: future::empty(), a future whose poll is never ready
fetch_block_data == "Empty"

\* fetch_extrinsic_data: Ok(Extrinsic), ready at once
fetch_extrinsic_data == "Ok"

\* ---------------------------------------------------------------- state
VARIABLES
    deferred_statements,  \* Router.deferred_statements: the buffer behind the mutex
    table,                \* Router.table: the candidate hashes the consensus table knows
    pc,                   \* per context: where its import_statement call stands
    statement,            \* per context: the argument of its call
    defer,                \* per context: the local `defer`
    pending,              \* per context: the local `pending`
    producers,            \* per context: the producers the import returned
    spawned,              \* number of tasks handed to task_executor.spawn
    parked,               \* number of spawned tasks polled and waiting on their fetch
    finished,             \* number of spawned tasks that ran to their end
    mutex,                \* holder of the deferred_statements mutex, 0 when free
    parent_hash,          \* Router.parent_hash
    calls,                \* number of import_statement calls made so far
    did,                  \* per context: what its current (or last) call did, in order
    history,              \* the router's pushes, drains and table imports, in order
    ops,                  \* number of operations made on the bare buffer
    pushed,               \* per hash: the statements given to push since its last drain
    last,                 \* the last bare-buffer operation, with its result
    given,                \* the producers handed to the dispatch loop run on its own
    work,                 \* the tasks that loop spawned, each with its progress
    local                 \* the statements handed to table.sign_and_import, in order

vars == <<deferred_statements, table, pc, statement, defer, pending, producers, spawned,
          parked, finished, mutex, parent_hash, calls, did, history, ops, pushed, last,
          given, work, local>>

workVars == <<given, work, local>>
taskVars == <<parked, finished>>
routerVars == <<table, pc, statement, defer, pending, producers, spawned, parked, finished,
                mutex, parent_hash, calls, did, history>>
bufferVars == <<ops, pushed, last>>

NoStatement == [kind |-> "None", hash |-> 0, sender |-> 0, signature |-> 0]
NoPrev == [op |-> "none", hash |-> 0, signed |-> << >>]
NoOp == [op |-> "none", statement |-> NoStatement, hash |-> 0, before |-> new,
         log |-> << >>, signed |-> << >>, traces |-> << >>, prev |-> NoPrev]
PrevOf(l) == [op |-> l.op, hash |-> l.hash, signed |-> l.signed]
Event(type, st, batch, traces) ==
    [type |-> type, statement |-> st, batch |-> batch, traces |-> traces]

\* Router::new
Init ==
    /\ deferred_statements = new
    /\ table = {}
    /\ pc = [p \in Procs |-> "idle"]
    /\ statement = [p \in Procs |-> NoStatement]
    /\ defer = [p \in Procs |-> FALSE]
    /\ pending = [p \in Procs |-> << >>]
    /\ producers = [p \in Procs |-> << >>]
    /\ spawned = 0
    /\ parked = 0
    /\ finished = 0
    /\ mutex = 0
    /\ parent_hash \in ParentHashes
    /\ calls = 0
    /\ did = [p \in Procs |-> << >>]
    /\ history = << >>
    /\ ops = 0
    /\ pushed = [h \in Hashes |-> << >>]
    /\ last = NoOp
    /\ given = << >>
    /\ work = << >>
    /\ local = << >>

\* ---------------------------------------------------------------- Router::import_statement
\* a context enters import_statement(statement)
Call(p, s) ==
    /\ pc[p] = "idle"
    /\ calls < MaxCalls
    /\ calls' = calls + 1
    /\ statement' = [statement EXCEPT ![p] = s]
    /\ pc' = [pc EXCEPT ![p] = "match"]
    /\ did' = [did EXCEPT ![p] = << >>]
    /\ UNCHANGED <<deferred_statements, table, defer, pending, producers, spawned, history,
                   mutex, parent_hash>>
    /\ UNCHANGED taskVars
    /\ UNCHANGED bufferVars
    /\ UNCHANGED workVars

\* let defer = match statement.statement { .. }
defer_Never(st, tbl) == FALSE

defer_decision(st, tbl) ==
    IF st.kind = "Candidate" THEN FALSE ELSE candidate_is_none(tbl, st.hash)

Match(p) ==
    /\ pc[p] = "match"
    /\ defer' = [defer EXCEPT ![p] = defer_decision(statement[p], table)]
    /\ did' = [did EXCEPT ![p] =
                 IF statement[p].kind = "Candidate" THEN << >>
                 ELSE IF candidate_is_none(table, statement[p].hash)
                      THEN <<"unknown">> ELSE <<"known">>]
    /\ pc' = [pc EXCEPT ![p] = IF defer'[p] THEN "push" ELSE "pending"]
    /\ UNCHANGED <<deferred_statements, table, statement, pending, producers, spawned,
                   calls, history, mutex, parent_hash>>
    /\ UNCHANGED taskVars
    /\ UNCHANGED bufferVars
    /\ UNCHANGED workVars

\* self.deferred_statements.lock().push(statement); return;
\* the guard of lock() is a temporary of the statement: dropped at its end
guard_after_push(p) == 0

Push(p) ==
    /\ pc[p] = "push"
    /\ mutex = 0
    /\ mutex' = guard_after_push(p)
    /\ deferred_statements' = push(deferred_statements, statement[p])
    /\ history' = Append(history, Event("push", statement[p], << >>, << >>))
    /\ did' = [did EXCEPT ![p] = Append(@, "push")]
    /\ pc' = [pc EXCEPT ![p] = "idle"]
    /\ statement' = [statement EXCEPT ![p] = NoStatement]
    /\ defer' = [defer EXCEPT ![p] = FALSE]
    /\ UNCHANGED <<table, pending, producers, spawned, calls, parent_hash>>
    /\ UNCHANGED taskVars
    /\ UNCHANGED bufferVars
    /\ UNCHANGED workVars

\* let (pending, _traces) = if let Candidate(..) { lock().get_deferred(..) } else { empty }
\* if let GenericStatement::Candidate(ref candidate) = statement.statement
drains_Always(st) == TRUE

drains(st) == st.kind = "Candidate"

\* the guard of lock() is a temporary of the `let (pending, _traces) = ..;` statement:
\* dropped at its end, before the table is called
guard_KeptAfterGetDeferred(p) == p

guard_after_get_deferred(p) == 0

Pending(p) ==
    /\ pc[p] = "pending"
    /\ IF drains(statement[p])
       THEN LET r == get_deferred(deferred_statements, statement[p].hash) IN
            /\ mutex = 0
            /\ mutex' = guard_after_get_deferred(p)
            /\ deferred_statements' = r.self
            /\ pending' = [pending EXCEPT ![p] = r.signed]
            /\ did' = [did EXCEPT ![p] = Append(@, "get_deferred")]
            /\ history' = Append(history, Event("drain", statement[p], r.signed, r.traces))
       ELSE /\ pending' = [pending EXCEPT ![p] = << >>]
            /\ UNCHANGED <<deferred_statements, did, history, mutex>>
    /\ pc' = [pc EXCEPT ![p] = "import"]
    /\ UNCHANGED <<table, statement, defer, producers, spawned, calls, parent_hash>>
    /\ UNCHANGED taskVars
    /\ UNCHANGED bufferVars
    /\ UNCHANGED workVars

\* once(statement).chain(pending)
Batch_PendingFirst(st, pend) == pend \o <<st>>

Batch(st, pend) == <<st>> \o pend

\* let producers = self.table.import_remote_statements(self, batch)
\* the table decides which of the returned producers are blank
Import(p) ==
    /\ pc[p] = "import"
    /\ LET batch == Batch(statement[p], pending[p]) IN
       /\ table' = import_remote_statements(table, batch)
       /\ history' = Append(history, Event("import", statement[p], batch, << >>))
       /\ \E ps \in ProducersFor(batch) :
            /\ producers' = [producers EXCEPT ![p] = ps]
            /\ did' = [did EXCEPT ![p] = Append(@, "import") \o ps]
    /\ pc' = [pc EXCEPT ![p] = "dispatch"]
    /\ UNCHANGED <<deferred_statements, statement, defer, pending, spawned, calls, mutex,
                   parent_hash>>
    /\ UNCHANGED taskVars
    /\ UNCHANGED bufferVars
    /\ UNCHANGED workVars

\* for producer in producers.filter(|p| !p.is_blank()) { .. self.task_executor.spawn(work) }
\* producers.into_iter().filter(|p| !p.is_blank())
NonBlank_KeepsAll(ps) == ps

NonBlank(ps) == SelectSeq(ps, LAMBDA x : x # "blank")

\* one "spawn" per task handed to the executor
Spawns(n) == [i \in 1..n |-> "spawn"]

Dispatch(p) ==
    /\ pc[p] = "dispatch"
    /\ spawned' = spawned + Len(NonBlank(producers[p]))
    /\ did' = [did EXCEPT ![p] = @ \o Spawns(Len(NonBlank(producers[p])))]
    /\ pc' = [pc EXCEPT ![p] = "idle"]
    /\ statement' = [statement EXCEPT ![p] = NoStatement]
    /\ pending' = [pending EXCEPT ![p] = << >>]
    /\ producers' = [producers EXCEPT ![p] = << >>]
    /\ mutex' = IF mutex = p THEN 0 ELSE mutex
    /\ UNCHANGED <<deferred_statements, table, defer, calls, history, parent_hash>>
    /\ UNCHANGED taskVars
    /\ UNCHANGED bufferVars
    /\ UNCHANGED workVars

\* the executor polls a spawned task: producer.prime(validate) first awaits the block
\* data of its candidate from the router
PollOutcome == IF fetch_block_data = "Empty" THEN "parked" ELSE "finished"

Poll ==
    /\ parked + finished < spawned
    /\ IF PollOutcome = "parked"
       THEN parked' = parked + 1 /\ UNCHANGED finished
       ELSE finished' = finished + 1 /\ UNCHANGED parked
    /\ UNCHANGED <<deferred_statements, table, pc, statement, defer, pending, producers,
                   spawned, mutex, parent_hash, calls, did, history>>
    /\ UNCHANGED bufferVars
    /\ UNCHANGED workVars

Next ==
    \/ \E p \in Procs : \E s \in Incoming : Call(p, s)
    \/ \E p \in Procs : Match(p)
    \/ \E p \in Procs : Push(p)
    \/ \E p \in Procs : Pending(p)
    \/ \E p \in Procs : Import(p)
    \/ \E p \in Procs : Dispatch(p)
    \/ Poll

Spec == Init /\ [][Next]_vars

\* ---------------------------------------------------------------- the bare buffer
\* deferred.push(statement), as the unit test calls it
BufPush(s) ==
    /\ ops < MaxOps
    /\ ops' = ops + 1
    /\ deferred_statements' = push(deferred_statements, s)
    /\ pushed' = [pushed EXCEPT ![s.hash] = Append(@, s)]
    /\ last' = [op |-> "push", statement |-> s, hash |-> s.hash,
                before |-> deferred_statements, log |-> pushed[s.hash],
                signed |-> << >>, traces |-> << >>, prev |-> PrevOf(last)]
    /\ UNCHANGED routerVars
    /\ UNCHANGED workVars

\* deferred.get_deferred(&hash), as the unit test calls it
BufDrain(h) ==
    /\ ops < MaxOps
    /\ ops' = ops + 1
    /\ LET r == get_deferred(deferred_statements, h) IN
       /\ deferred_statements' = r.self
       /\ last' = [op |-> "get_deferred", statement |-> NoStatement, hash |-> h,
                   before |-> deferred_statements, log |-> pushed[h],
                   signed |-> r.signed, traces |-> r.traces, prev |-> PrevOf(last)]
    /\ pushed' = [pushed EXCEPT ![h] = << >>]
    /\ UNCHANGED routerVars
    /\ UNCHANGED workVars

BufNext ==
    \/ \E s \in SignedStatement : BufPush(s)
    \/ \E h \in Hashes : BufDrain(h)

BufSpec == Init /\ [][BufNext]_vars

\* ---------------------------------------------------------------- the dispatched work
\* The dispatch loop and the closures it builds, run on their own against a producer
\* whose content fetch resolves.
Collations == {"good", "bad"}

\* ::polkadot_consensus::validate_collation(&*api, &checked, &collation)
validate_collation(collation) == IF collation = "good" THEN "Ok" ELSE "Err"

\* let validate = move |collation| -> Option<bool> { .. }
validate_IgnoresParent(parent, collation) ==
    IF validate_collation(collation) = "Ok" THEN "True" ELSE "False"

validate_ErrIsNone(parent, collation) ==
    IF parent = "None" THEN "None"
    ELSE IF validate_collation(collation) = "Ok" THEN "True" ELSE "None"

validate(parent, collation) ==
    IF parent = "None" THEN "None"
    ELSE IF validate_collation(collation) = "Ok" THEN "True" ELSE "False"

NoProduced == [validity |-> "None", availability |-> "None"]

\* what a primed producer may yield for a verdict: nothing without a verdict, else an
\* optional validity statement and an optional availability statement
Yields(verdict) ==
    IF verdict = "None" THEN {NoProduced}
    ELSE [validity : {"None", IF verdict = "True" THEN "Valid" ELSE "Invalid"},
          availability : {"None", "Available"}]

\* if let Some(validity) = produced.validity { table.sign_and_import(validity); }
map_validity(produced, hash) ==
    IF produced.validity # "None"
    THEN <<[kind |-> produced.validity, hash |-> hash]>> ELSE << >>

map_availability_Skipped(produced, hash) == << >>

\* if let Some(availability) = produced.availability { table.sign_and_import(availability); }
map_availability(produced, hash) ==
    IF produced.availability # "None"
    THEN <<[kind |-> produced.availability, hash |-> hash]>> ELSE << >>

\* table.sign_and_import(statement): the candidate is known, the known set stays
sign_and_import(tbl, sts) == tbl

NewTask(h) == [pc |-> "spawned", hash |-> h, collation |-> "none", verdict |-> "unset",
               produced |-> NoProduced, imported |-> << >>]

\* the buffers and tables the router can be in when its import returns producers
WorkBuffers ==
    {new} \cup {push(new, s) : s \in {x \in Incoming : x.kind = "Valid"}}

WorkInit ==
    /\ deferred_statements \in WorkBuffers
    /\ table \in {{1}, {1, 2}}
    /\ pc = [p \in Procs |-> "idle"]
    /\ statement = [p \in Procs |-> NoStatement]
    /\ defer = [p \in Procs |-> FALSE]
    /\ pending = [p \in Procs |-> << >>]
    /\ producers = [p \in Procs |-> << >>]
    /\ spawned = 0
    /\ parked = 0
    /\ finished = 0
    /\ mutex = 0
    /\ parent_hash \in ParentHashes
    /\ calls = 0
    /\ did = [p \in Procs |-> << >>]
    /\ history = << >>
    /\ ops = 0
    /\ pushed = [h \in Hashes |-> << >>]
    /\ last = [NoOp EXCEPT !.before = deferred_statements]
    /\ given = << >>
    /\ work = << >>
    /\ local = << >>

\* for producer in producers.into_iter().filter(|p| !p.is_blank()) { .. spawn(work) }
WorkDispatch(ps, h) ==
    /\ given = << >>
    /\ h \in table
    /\ given' = ps
    /\ work' = [i \in 1..Len(NonBlank(ps)) |-> NewTask(h)]
    /\ UNCHANGED <<deferred_statements, local>>
    /\ UNCHANGED routerVars
    /\ UNCHANGED bufferVars

\* the content of the candidate reaches the primed producer of task i
WorkFetched(i, c) ==
    /\ work[i].pc = "spawned"
    /\ work' = [work EXCEPT ![i].pc = "primed", ![i].collation = c]
    /\ UNCHANGED <<deferred_statements, given, local>>
    /\ UNCHANGED routerVars
    /\ UNCHANGED bufferVars

\* the producer evaluates validate(collation)
WorkValidate(i) ==
    /\ work[i].pc = "primed"
    /\ work' = [work EXCEPT ![i].pc = "validated",
                            ![i].verdict = validate(parent_hash, work[i].collation)]
    /\ UNCHANGED <<deferred_statements, given, local>>
    /\ UNCHANGED routerVars
    /\ UNCHANGED bufferVars

\* the producer yields `produced`
WorkYield(i) ==
    /\ work[i].pc = "validated"
    /\ \E y \in Yields(work[i].verdict) :
         work' = [work EXCEPT ![i].pc = "produced", ![i].produced = y]
    /\ UNCHANGED <<deferred_statements, given, local>>
    /\ UNCHANGED routerVars
    /\ UNCHANGED bufferVars

\* .map(move |produced| { .. }), first statement of the closure: the validity
\* statement, if any, is handed to table.sign_and_import
WorkMapValidity(i) ==
    /\ work[i].pc = "produced"
    /\ LET sts == map_validity(work[i].produced, work[i].hash) IN
       /\ work' = [work EXCEPT ![i].pc = "validity", ![i].imported = @ \o sts]
       /\ local' = local \o sts
       /\ table' = sign_and_import(table, sts)
    /\ UNCHANGED <<deferred_statements, given>>
    /\ UNCHANGED <<pc, statement, defer, pending, producers, spawned, parked, finished,
                   mutex, parent_hash, calls, did, history>>
    /\ UNCHANGED bufferVars

\* second statement of the closure, a separate call into the table: the availability
\* statement, if any, is handed to table.sign_and_import
WorkMapAvailability(i) ==
    /\ work[i].pc = "validity"
    /\ LET sts == map_availability(work[i].produced, work[i].hash) IN
       /\ work' = [work EXCEPT ![i].pc = "done", ![i].imported = @ \o sts]
       /\ local' = local \o sts
       /\ table' = sign_and_import(table, sts)
    /\ UNCHANGED <<deferred_statements, given>>
    /\ UNCHANGED <<pc, statement, defer, pending, producers, spawned, parked, finished,
                   mutex, parent_hash, calls, did, history>>
    /\ UNCHANGED bufferVars

WorkNext ==
    \/ \E n \in 1..MaxProducers : \E ps \in [1..n -> ProducerKinds] : \E h \in Hashes :
          WorkDispatch(ps, h)
    \/ \E i \in 1..Len(work) : \E c \in Collations : WorkFetched(i, c)
    \/ \E i \in 1..Len(work) : WorkValidate(i)
    \/ \E i \in 1..Len(work) : WorkYield(i)
    \/ \E i \in 1..Len(work) : WorkMapValidity(i)
    \/ \E i \in 1..Len(work) : WorkMapAvailability(i)

WorkSpec == WorkInit /\ [][WorkNext]_vars

\* ---------------------------------------------------------------- helpers of the properties
Count(x, seq) == Cardinality({i \in 1..Len(seq) : seq[i] = x})

Idle == \A p \in Procs : pc[p] = "idle"

Buffered(buf, h) == IF h \in DOMAIN buf.deferred THEN buf.deferred[h] ELSE << >>

\* the traces a buffer over Hashes and Senders can hold
AllTraces == {StatementTrace(k, s, h) : k \in Kinds \ {"Candidate"}, s \in Senders, h \in Hashes}

\* how many statements stored in the list of hash h carry trace t
StoredIn(buf, h, t) ==
    Cardinality({i \in 1..Len(Buffered(buf, h)) :
                    /\ Buffered(buf, h)[i].kind # "Candidate"
                    /\ TraceOf(Buffered(buf, h)[i]) = t})

RECURSIVE SumStored(_, _, _)
SumStored(buf, hs, t) ==
    IF hs = {} THEN 0
    ELSE LET h == CHOOSE x \in hs : TRUE IN StoredIn(buf, h, t) + SumStored(buf, hs \ {h}, t)

\* the statements of a log of push calls that are the first of their trace, in order:
\* what a buffer that held nothing for the hash must have accepted
RECURSIVE FirstOfTrace(_, _)
FirstOfTrace(log, i) ==
    IF i > Len(log) THEN << >>
    ELSE IF /\ log[i].kind # "Candidate"
            /\ \A j \in 1..(i - 1) : TraceOf(log[j]) # TraceOf(log[i])
         THEN <<log[i]>> \o FirstOfTrace(log, i + 1)
         ELSE FirstOfTrace(log, i + 1)

\* history[i] is the import that makes its Candidate's hash known to the table
FirstCandidateImport(i) ==
    /\ history[i].type = "import"
    /\ history[i].statement.kind = "Candidate"
    /\ \A k \in 1..(i - 1) :
         ~(/\ history[k].type = "import"
           /\ history[k].statement.kind = "Candidate"
           /\ history[k].statement.hash = history[i].statement.hash)

\* the pushes for hash h made between the previous drain of h and history[i]
PushesBefore(i, h) ==
    {j \in 1..(i - 1) :
        /\ history[j].type = "push"
        /\ history[j].statement.hash = h
        /\ \A k \in (j + 1)..(i - 1) :
             ~(history[k].type = "drain" /\ history[k].statement.hash = h)}

\* ---------------------------------------------------------------- properties
\* C1: every statement for hash H pushed into the buffer before the table import of
\* Candidate(H) takes place is in the batch of that import, exactly once.
C1_PushedBeforeImportIsInBatch ==
    \A i \in 1..Len(history) :
        FirstCandidateImport(i) =>
            \A j \in 1..(i - 1) :
                (history[j].type = "push" /\ history[j].statement.hash = history[i].statement.hash)
                    => Count(history[j].statement, history[i].batch) = 1

\* C2: a statement racing with the import of its candidate is not lost: once every call
\* has returned, no statement is left in the buffer for a hash the table knows.
C2_RacingStatementNotStranded ==
    Idle => \A h \in table : Buffered(deferred_statements, h) = << >>

\* C3: a trace is in known_traces if and only if exactly one stored statement carries
\* it, and that statement is in the list of the trace's hash.
C3_TraceIffExactlyOneStored ==
    /\ deferred_statements.known_traces \subseteq AllTraces
    /\ \A t \in AllTraces :
         (t \in deferred_statements.known_traces)
            <=> (/\ SumStored(deferred_statements, DOMAIN deferred_statements.deferred, t) = 1
                 /\ StoredIn(deferred_statements, t.hash, t) = 1)

C3_Witness ==
    /\ last.op = "get_deferred"
    /\ last.signed # << >>
    /\ deferred_statements.known_traces # {}

\* C4: a call with a Valid, Invalid or Available statement whose hash the table reports
\* unknown pushes the statement and returns: no table import, no task spawned.
C4_UnknownIsPushedAndReturns ==
    \A p \in Procs :
        (did[p] # << >> /\ did[p][1] = "unknown") =>
            /\ pc[p] \in {"push", "idle"}
            /\ pc[p] = "push" => did[p] = <<"unknown">>
            /\ pc[p] = "idle" => did[p] = <<"unknown", "push">>

C4_Witness ==
    \E p \in Procs : pc[p] = "idle" /\ did[p] = <<"unknown", "push">>

\* C5: a push of a statement whose trace is already buffered changes nothing, and
\* pushing one statement several times then draining its hash returns one copy, one trace.
C5_DuplicatePushIsIdempotent ==
    /\ (/\ last.op = "push"
        /\ last.statement.kind # "Candidate"
        /\ TraceOf(last.statement) \in last.before.known_traces)
         => deferred_statements = last.before
    /\ (/\ last.op = "get_deferred"
        /\ last.log # << >>
        /\ last.log[1].kind # "Candidate"
        /\ \A i \in 1..Len(last.log) : last.log[i] = last.log[1])
         => /\ last.signed = <<last.log[1]>>
            /\ last.traces = <<TraceOf(last.log[1])>>

C5_Witness ==
    /\ last.op = "get_deferred"
    /\ Len(last.log) >= 2
    /\ last.log[1].kind # "Candidate"
    /\ \A i \in 1..Len(last.log) : last.log[i] = last.log[1]

\* C6: get_deferred(h) returns the statements push accepted for h since the previous
\* drain of h, in arrival order, and the list of their (kind, sender, h) traces.
C6_DrainReturnsAcceptedInOrder ==
    last.op = "get_deferred" =>
        /\ last.signed = FirstOfTrace(last.log, 1)
        /\ Len(last.traces) = Len(last.signed)
        /\ \A i \in 1..Len(last.signed) :
             last.traces[i] = StatementTrace(last.signed[i].kind, last.signed[i].sender, last.hash)

C6_Witness ==
    /\ last.op = "get_deferred"
    /\ Len(last.signed) >= 2

\* C7: after get_deferred(h) the buffer holds no statement and no trace of h, and a
\* get_deferred(h) that follows immediately returns two empty sequences.
C7_DrainRemovesListAndTraces ==
    last.op = "get_deferred" =>
        /\ Buffered(deferred_statements, last.hash) = << >>
        /\ \A t \in deferred_statements.known_traces : t.hash # last.hash
        /\ (last.prev.op = "get_deferred" /\ last.prev.hash = last.hash)
             => (last.signed = << >> /\ last.traces = << >>)

C7_Witness ==
    /\ last.op = "get_deferred"
    /\ last.prev.op = "get_deferred"
    /\ last.prev.hash = last.hash
    /\ last.prev.signed # << >>

\* C8: get_deferred of a hash with nothing buffered returns two empty sequences and
\* leaves the buffer as it was.
C8_EmptyDrainChangesNothing ==
    (last.op = "get_deferred" /\ Buffered(last.before, last.hash) = << >>) =>
        /\ last.signed = << >>
        /\ last.traces = << >>
        /\ deferred_statements = last.before

C8_Witness ==
    /\ last.op = "get_deferred"
    /\ Buffered(last.before, last.hash) = << >>
    /\ last.before.known_traces # {}

\* C9: a push of a Candidate statement changes nothing, the buffer never stores a
\* Candidate statement, and a drain returns none.
C9_CandidateNeverBuffered ==
    /\ (last.op = "push" /\ last.statement.kind = "Candidate")
         => deferred_statements = last.before
    /\ \A h \in DOMAIN deferred_statements.deferred :
         \A i \in 1..Len(deferred_statements.deferred[h]) :
            deferred_statements.deferred[h][i].kind # "Candidate"
    /\ last.op = "get_deferred" =>
         \A i \in 1..Len(last.signed) : last.signed[i].kind # "Candidate"

C9_Witness ==
    /\ last.op = "get_deferred"
    /\ \E i \in 1..Len(last.log) : last.log[i].kind = "Candidate"
    /\ last.signed # << >>

\* C10: pushes made by concurrent calls, with pairwise distinct traces and all for hash
\* h, followed by a drain of h, come back from that drain: every statement and every
\* trace once, none missing.
C10_ConcurrentPushesAllDrained ==
    \A i \in 1..Len(history) :
        history[i].type = "drain" =>
            LET P == PushesBefore(i, history[i].statement.hash) IN
            (\A j, k \in P : j # k => TraceOf(history[j].statement) # TraceOf(history[k].statement))
                => /\ Len(history[i].batch) = Cardinality(P)
                   /\ Range(history[i].batch) = {history[j].statement : j \in P}
                   /\ Len(history[i].traces) = Cardinality(P)
                   /\ Range(history[i].traces) = {TraceOf(history[j].statement) : j \in P}

C10_Witness ==
    \E i \in 1..Len(history) :
        /\ history[i].type = "drain"
        /\ Len(history[i].batch) >= 2

\* the next step of the call of context p
StepOf(p) == Match(p) \/ Push(p) \/ Pending(p) \/ Import(p) \/ Dispatch(p)

\* C11: a call hands at most one batch to the table and every non-blank producer to the
\* executor, and it can always take its next step: it waits for no spawned task, so it
\* returns while tasks it spawned are unfinished.
C11_ReturnsWithoutWaiting ==
    \A p \in Procs :
        /\ Count("import", did[p]) <= 1
        /\ pc[p] = "idle" => Count("spawn", did[p]) = Count("work", did[p])
        /\ pc[p] # "idle" => ENABLED StepOf(p)

C11_Witness ==
    \E p \in Procs :
        /\ pc[p] = "idle"
        /\ Count("spawn", did[p]) >= 1
        /\ parked >= 1
        /\ finished < spawned

\* the tasks that have evaluated the validation predicate
Validated == {i \in 1..Len(work) : work[i].pc \in {"validated", "produced", "validity", "done"}}

\* the tasks whose producer has yielded
Produced == {i \in 1..Len(work) : work[i].pc \in {"produced", "validity", "done"}}

RECURSIVE SumImported(_)
SumImported(n) == IF n = 0 THEN 0 ELSE Len(work[n].imported) + SumImported(n - 1)

\* C12: the statements a producer yields go to the table's sign_and_import, validity
\* first, then availability, each in a call of its own that calls of other tasks may
\* come between; the deferred buffer is neither pushed to nor drained and the router's
\* import path is not entered.
C12_ProducedGoesToSignAndImport ==
    /\ \A i \in 1..Len(work) :
         LET v == work[i].produced.validity
             a == work[i].produced.availability
             vs == IF v # "None" THEN <<[kind |-> v, hash |-> work[i].hash]>> ELSE << >>
             as == IF a # "None" THEN <<[kind |-> a, hash |-> work[i].hash]>> ELSE << >>
         IN /\ work[i].pc = "done" => work[i].imported = vs \o as
            /\ work[i].pc = "validity" => work[i].imported = vs
            /\ work[i].pc \notin {"validity", "done"} => work[i].imported = << >>
    /\ Len(local) = SumImported(Len(work))
    /\ \A k \in 1..Len(local) : \E i \in 1..Len(work) : local[k] \in Range(work[i].imported)
    /\ deferred_statements = last.before
    /\ history = << >>

C12_Witness ==
    /\ Len(work) >= 2
    /\ \A i \in 1..Len(work) : work[i].pc = "done" /\ Len(work[i].imported) = 2
    /\ Len(local) >= 4
    /\ local[1].kind = "Valid"
    /\ local[2].kind = "Valid"
    /\ local[3].kind = "Available"
    /\ deferred_statements.known_traces # {}

\* C16: without a parent-block context the validation predicate yields no result for
\* every collation and the task yields and imports nothing; every non-blank producer of
\* the batch is still dispatched and the candidate stays imported.
C16_NoParentYieldsNothing ==
    parent_hash = "None" =>
        /\ \A i \in Validated : work[i].verdict = "None"
        /\ \A i \in Produced : work[i].produced = NoProduced /\ work[i].imported = << >>
        /\ local = << >>
        /\ given # << >> => Len(work) = Count("work", given)
        /\ \A i \in 1..Len(work) : work[i].hash \in table

C16_Witness ==
    /\ parent_hash = "None"
    /\ Len(work) >= 2
    /\ \A i \in 1..Len(work) : work[i].pc = "done"
    /\ \E i, j \in 1..Len(work) : work[i].collation = "good" /\ work[j].collation = "bad"

\* C17: with a parent-block context the validation predicate yields valid when the
\* collation check succeeds and invalid when it returns an error, never no result.
C17_ParentGivesDefiniteVerdict ==
    parent_hash = "Some" =>
        \A i \in Validated :
            /\ validate_collation(work[i].collation) = "Ok" => work[i].verdict = "True"
            /\ validate_collation(work[i].collation) = "Err" => work[i].verdict = "False"

C17_Witness ==
    /\ parent_hash = "Some"
    /\ \E i \in 1..Len(work) :
         /\ work[i].pc = "done"
         /\ work[i].collation = "bad"
         /\ work[i].verdict = "False"
         /\ work[i].produced.validity = "Invalid"

\* the index of the last drain of hash h before history[i], 0 if there is none
PrevDrain(i, h) ==
    LET ds == {k \in 1..(i - 1) :
                  history[k].type = "drain" /\ history[k].statement.hash = h}
    IN IF ds = {} THEN 0 ELSE CHOOSE m \in ds : \A n \in ds : n <= m

\* the statements pushed for hash h between the previous drain of h and history[i],
\* in the order of their pushes
PushSeq(i, h) ==
    LET pushes == SelectSeq(SubSeq(history, PrevDrain(i, h) + 1, i - 1),
                            LAMBDA e : e.type = "push" /\ e.statement.hash = h)
    IN [k \in 1..Len(pushes) |-> pushes[k].statement]

\* C13: a call with Candidate(c) drains the buffer for hash(c) once and calls the
\* table's import once, with the Candidate statement first and then the drained
\* statements in the order they arrived.
C13_CandidateImportsWithDrained ==
    /\ \A p \in Procs :
         /\ (pc[p] \in {"import", "dispatch"} /\ statement[p].kind = "Candidate") =>
              /\ Count("get_deferred", did[p]) = 1
              /\ Count("import", did[p]) = (IF pc[p] = "dispatch" THEN 1 ELSE 0)
              /\ \E i \in 1..Len(history) :
                   /\ history[i].type = "drain"
                   /\ history[i].statement = statement[p]
                   /\ history[i].batch = pending[p]
              /\ pc[p] = "dispatch" =>
                   \E j \in 1..Len(history) :
                      /\ history[j].type = "import"
                      /\ history[j].batch = <<statement[p]>> \o pending[p]
         /\ (did[p] # << >> /\ did[p][1] = "get_deferred") =>
              /\ Count("get_deferred", did[p]) = 1
              /\ Count("import", did[p]) <= 1
              /\ pc[p] = "idle" => (Len(did[p]) >= 2 /\ did[p][2] = "import")
    /\ \A j \in 1..Len(history) :
         (history[j].type = "import" /\ history[j].statement.kind = "Candidate") =>
            /\ Head(history[j].batch) = history[j].statement
            /\ \E i \in 1..(j - 1) :
                 /\ history[i].type = "drain"
                 /\ history[i].statement = history[j].statement
                 /\ history[i].batch = Tail(history[j].batch)
    /\ \A i \in 1..Len(history) :
         history[i].type = "drain" =>
            history[i].batch = FirstOfTrace(PushSeq(i, history[i].statement.hash), 1)

C13_Witness ==
    \E j \in 1..Len(history) :
        /\ history[j].type = "import"
        /\ history[j].statement.kind = "Candidate"
        /\ Len(history[j].batch) >= 3

\* C14: a call with a Valid, Invalid or Available statement whose hash the table
\* reports known imports it at once as a batch of one; it neither pushes nor drains,
\* and none of its steps changes the buffer.
C14_KnownStateInvariant ==
    \A p \in Procs :
        (did[p] # << >> /\ did[p][1] = "known") =>
            /\ Count("push", did[p]) = 0
            /\ Count("get_deferred", did[p]) = 0
            /\ pc[p] \in {"pending", "import", "dispatch", "idle"}
            /\ pc[p] \in {"import", "dispatch"} => pending[p] = << >>
            /\ pc[p] \in {"dispatch", "idle"} => (Len(did[p]) >= 2 /\ did[p][2] = "import")
            /\ pc[p] = "dispatch" =>
                 \E j \in 1..Len(history) :
                    history[j].type = "import" /\ history[j].batch = <<statement[p]>>

C14_KnownStepKeepsBuffer ==
    \A p \in Procs :
        (did[p] # << >> /\ did[p][1] = "known" /\ pc'[p] # pc[p])
            => deferred_statements' = deferred_statements

C14_KnownImportedAtOnce ==
    [](C14_KnownStateInvariant) /\ [][C14_KnownStepKeepsBuffer]_vars

C14_Witness ==
    \E p \in Procs :
        /\ pc[p] = "idle"
        /\ did[p] # << >>
        /\ did[p][1] = "known"
        /\ Count("import", did[p]) = 1
        /\ deferred_statements.known_traces # {}

\* C15: the mutex is held only inside a push or a get_deferred: it is free whenever a
\* call queries or imports into the table or spawns, and a call that wants the mutex
\* can take it.
C15_MutexOnlyAroundBufferCalls ==
    /\ mutex = 0
    /\ \A p \in Procs : pc[p] \in {"push", "pending"} => ENABLED (Push(p) \/ Pending(p))

C15_Witness ==
    \E p, q \in Procs :
        /\ pc[p] = "import"
        /\ did[p] = <<"get_deferred">>
        /\ pc[q] = "push"

\* C18: every task spawned for a non-blank producer finishes: while one is
\* unfinished it can still take a step.
C18_SpawnedTaskCanFinish ==
    finished < spawned => ENABLED Poll

\* the drains whose batch holds statement s
DrainsOf(s) ==
    {i \in 1..Len(history) :
        history[i].type = "drain" /\ s \in Range(history[i].batch)}

\* the imports whose batch holds statement s after its first element
ImportsOfBuffered(s) ==
    {j \in 1..Len(history) :
        history[j].type = "import" /\ s \in Range(Tail(history[j].batch))}

NoRepeat(seq) == \A a, b \in 1..Len(seq) : a # b => seq[a] # seq[b]

\* C19: a statement accepted by one push is returned by at most one drain and is in
\* at most one import batch: every drained statement was pushed since the previous
\* drain of its hash, no batch holds a statement twice, and a buffered statement is
\* in no more import batches than drains returned it.
C19_StoredStatementImportedOnce ==
    /\ \A i \in 1..Len(history) :
         history[i].type = "drain" =>
            /\ NoRepeat(history[i].batch)
            /\ \A k \in 1..Len(history[i].batch) :
                 \E j \in PushesBefore(i, history[i].statement.hash) :
                    history[j].statement = history[i].batch[k]
    /\ \A j \in 1..Len(history) :
         history[j].type = "import" =>
            /\ NoRepeat(history[j].batch)
            /\ \A k \in 2..Len(history[j].batch) :
                 Cardinality(ImportsOfBuffered(history[j].batch[k]))
                    <= Cardinality(DrainsOf(history[j].batch[k]))

C19_Witness ==
    \E i, j \in 1..Len(history) :
        /\ i < j
        /\ history[i].type = "drain"
        /\ history[j].type = "drain"
        /\ history[i].statement.hash = history[j].statement.hash
        /\ history[i].batch # << >>
        /\ \E k \in 1..Len(history) : k > j /\ history[k].type = "import"

\* the traces of hash h held in a buffer
TracesOfHash(buf, h) == {t \in buf.known_traces : t.hash = h}

IsPrefix(a, b) == Len(a) <= Len(b) /\ SubSeq(b, 1, Len(a)) = a

\* C20: push for hash h and get_deferred(h) leave the list and the traces of every
\* other hash as they were, and push removes nothing stored for h: only
\* get_deferred(h) removes statements of h.
C20_OnlyOwnDrainRemoves ==
    last.op \in {"push", "get_deferred"} =>
        /\ \A h \in Hashes \ {last.hash} :
             /\ Buffered(deferred_statements, h) = Buffered(last.before, h)
             /\ TracesOfHash(deferred_statements, h) = TracesOfHash(last.before, h)
        /\ last.op = "push" =>
             /\ IsPrefix(Buffered(last.before, last.hash),
                         Buffered(deferred_statements, last.hash))
             /\ TracesOfHash(last.before, last.hash)
                  \subseteq TracesOfHash(deferred_statements, last.hash)

C20_Witness ==
    /\ last.op = "get_deferred"
    /\ last.signed # << >>
    /\ \E h \in Hashes \ {last.hash} : Buffered(deferred_statements, h) # << >>

====
